---- MODULE Spec2Model ----
\* TSMultimeter backend: the session manager (communication.rs), the device
\* capability interface (device/mod.rs) and its two variants, the Fluke
\* serial device (device/fluke.rs) and the Mock device (device/mock.rs).
\*
\* Two specifications share this module:
\*   Spec     the session manager under concurrent request handlers; a Fluke
\*            protocol exchange is modelled by its suspension points;
\*   DevSpec  one device instance driven by one caller, with the Fluke
\*            exchange modelled byte by byte.
EXTENDS Integers, Sequences, FiniteSets, TLC

\* ------------------------------------------------------------------ bounds
NumTasks == 2      \* concurrent request handlers
MaxSessions == 2   \* Connect requests that may get as far as an identifier
MaxTicks == 1      \* cap of the counters that only grow: readings of
                   \* Instant::now(), MockDevice.measurement_count

\* Option<T> is the set holding at most one value.
None == {}
Some(x) == {x}
TheOne(S) == CHOOSE x \in S : TRUE
Tasks == 1..NumTasks

\* ------------------------------------------------------- identifier format
DigitChars == <<"0", "1", "2", "3", "4", "5", "6", "7", "8", "9">>

RECURSIVE Decimal(_)
\* The decimal digits of n, most significant first ({} of format!).
Decimal(n) == IF n < 10 THEN <<DigitChars[n + 1]>>
              ELSE Decimal(n \div 10) \o <<DigitChars[(n % 10) + 1]>>

\* {:04}: decimal, left-padded with zeros to a width of at least 4.
Pad04(n) == LET d == Decimal(n)
            IN IF Len(d) >= 4 THEN d ELSE [i \in 1..(4 - Len(d)) |-> "0"] \o d

IdPrefix == <<"d", "e", "v", "i", "c", "e", "_">>

\* format!("device_{:04}", n)
FormatDeviceId(n) == IdPrefix \o Pad04(n)

\* Mutant of U32Succ: the counter is not advanced.
U32Succ_Stuck(n) == n

\* next_device_id += 1 on a u32. The counter starts at 1 and moves once per
\* successful Connect, so within MaxSessions sessions it stays far below 2^32,
\* where the addition would overflow.
U32Succ(n) == n + 1

\* --------------------------------------------------------- device instances
ProfileKinds == {"VoltageSine", "TemperatureDrift", "ResistanceSweep",
                 "FrequencyPulse", "CurrentSine"}
\* The outcomes of MockMeasurementProfile::random that are explored.
ProfileDraws == {"VoltageSine", "ResistanceSweep"}
\* The outcome explored for the Mocks of the session table, whose handlers
\* never look at the profile.
SessionProfileDraws == {"VoltageSine"}

\* MockDevice::new and FlukeDevice::new; one record shape for both variants.
NewMock == [kind |-> "Mock", device_type |-> "Mock", port_name |-> None,
            port |-> None, port_lock |-> None, connected |-> FALSE,
            measurement_count |-> 0, profile |-> None, started_at |-> None]

NewFluke(device_type, port_name) ==
    [kind |-> "Fluke", device_type |-> device_type, port_name |-> port_name,
     port |-> None, port_lock |-> None, connected |-> FALSE,
     measurement_count |-> 0, profile |-> None, started_at |-> None]

\* create_device: the factory keyed by DeviceType.
CreateDevice(device_type, port) ==
    IF device_type \in {"Fluke289", "Fluke287"}
    THEN NewFluke(device_type, port) ELSE NewMock

\* MockDevice::connect after its delay: arm the generator.
MockConnected(d, now, kind) ==
    [d EXCEPT !.connected = TRUE, !.measurement_count = 0,
              !.started_at = Some(now), !.profile = Some(kind)]

\* Mutant of MockDisconnected: the flag stays set.
MockDisconnected_StaysConnected(d) == [d EXCEPT !.profile = None, !.started_at = None]

\* MockDevice::disconnect after its delay.
MockDisconnected(d) ==
    [d EXCEPT !.connected = FALSE, !.profile = None, !.started_at = None]

\* MockDevice::generate_measurement: count, then fill in a missing profile
\* and a missing start instant.
GenerateMeasurement(d, now, kind) ==
    [d EXCEPT !.measurement_count = @ + 1,
              !.profile = IF @ = None THEN Some(kind) ELSE @,
              !.started_at = IF @ = None THEN Some(now) ELSE @]

\* MockDevice::reset after its delay.
MockReset(d, now) ==
    [d EXCEPT !.measurement_count = 0, !.started_at = Some(now)]

\* The info MockDevice::identify returns.
MockInfo == [model |-> "MOCK-MULTIMETER", serial_number |-> "MOCK123456",
             software_version |-> "V1.0.0-MOCK"]

\* str::to_uppercase on the commands that are sent.
ToUpper(c) == CASE c = "qm" -> "QM" [] c = "id" -> "ID" [] c = "ri" -> "RI"
                [] OTHER -> c

\* is_connected of the two variants.
IsConnected(d) == IF d.kind = "Mock" THEN d.connected ELSE TRUE

\* FlukeDevice::connect once the port is open and settled: store the handle.
FlukeOpened(d) == [d EXCEPT !.port = Some("port"), !.port_lock = None]

\* FlukeDevice::disconnect: drop the handle.
FlukeClosed(d) == [d EXCEPT !.port = None]

\* The identification a Fluke instrument can report.
FlukeInfos == {[model |-> "FLUKE 289", serial_number |-> "95081087",
                software_version |-> "V1.00"],
               [model |-> "FLUKE 287", serial_number |-> "95081088",
                software_version |-> "V1.00"]}

\* ---------------------------------------------------------- manager state
VARIABLES
    devices,         \* AppState.devices: id -> ManagedDevice
    next_device_id,  \* AppState.next_device_id
    table_lock,      \* the task holding Mutex<AppState>, if any
    pc,              \* per task: where its handler is suspended
    op,              \* per task: the request it is serving
    local,           \* per task: the device instance the handler owns
    info,            \* per task: the DeviceInfo identify() gave its Connect
    returned,        \* the response the latest step sent back, if it sent one
    issued,          \* identifiers returned by Connect, in order
    disconnected,    \* identifiers a Disconnect has removed
    clock            \* logical time: readings of Instant::now() so far

mvars == <<devices, next_device_id, table_lock, pc, op, local, info,
           returned, issued, disconnected, clock>>

\* The state of the single device instance of DevSpec.
VARIABLES
    dev,               \* the device instance
    dpc,               \* where the call in progress is suspended
    dcall,             \* the call in progress
    dres,              \* what the latest step returned to the caller, if anything
    wire,              \* bytes the instrument has still to deliver
    rx,                \* bytes waiting in the serial input buffer
    response,          \* send_command_internal: accumulated text
    carriage_returns,  \* send_command_internal: '\r' seen so far
    ack_received,      \* send_command_internal
    elapsed,           \* ms since last_activity
    zero_reads,        \* Ok(0) reads of this exchange
    sent,              \* commands written so far
    opens              \* times the port was opened so far

\* The wire codec applied on its own (CodecSpec).
VARIABLES
    cin,               \* the codec function applied and its argument
    cout               \* <<what it returned>>, or <<>> before it is applied

dvars == <<dev, dpc, dcall, dres, wire, rx, response, carriage_returns,
           ack_received, elapsed, zero_reads, sent, opens, cin, cout>>

\* ---------------------------------------------------------------- requests
TypeInputs == {"Fluke289", "Mock", "Bogus"}
PortInputs == {None, Some("COM3")}
IdInputs == {FormatDeviceId(n) : n \in 1..MaxSessions} \cup {IdPrefix \o <<"1">>}
CommandInputs == {"qm"}
NoId == <<>>

Request(name, device_type, port, id, command) ==
    [name |-> name, device_type |-> device_type, port |-> port, id |-> id,
     command |-> command]

NoRequest == Request("", "", None, NoId, "")

\* The Mock ignores the port, so it is asked for without one.
ConnectRequests ==
    {Request("Connect", ty, po, NoId, "") : ty \in TypeInputs, po \in PortInputs}
    \ {Request("Connect", ty, Some("COM3"), NoId, "") : ty \in {"Mock", "Bogus"}}

SessionRequests ==
    {Request(n, "", None, id, "") :
        n \in {"Disconnect", "GetMeasurement", "GetStatus", "Reset"},
        id \in IdInputs}
    \cup {Request("SendRawCommand", "", None, id, c) :
            id \in IdInputs, c \in CommandInputs}
    \cup {Request("ListConnected", "", None, NoId, "")}

\* What a handler returns: Ok or Err, the error's kind, and the payload (the
\* identifier and DeviceInfo of Connect, the items of GetStatus/ListConnected).
Res(status, err, id, value) ==
    [status |-> status, err |-> err, id |-> id, value |-> value]

NoResult == Res("none", "", NoId, None)

\* A handler returns: the request it served and what it answered.
Response(request, res) == [request |-> request, res |-> res]
NoResponse == Response(NoRequest, NoResult)

\* Mutant of ListItem: the info is made up instead of taken from the entry.
ListItem_DefaultInfo(id) ==
    [id |-> id, device_type |-> devices[id].device_type,
     info |-> MockInfo,
     connected |-> IsConnected(devices[id].device)]

\* The DeviceListItem built from one table entry.
ListItem(id) ==
    [id |-> id, device_type |-> devices[id].device_type,
     info |-> devices[id].info,
     connected |-> IsConnected(devices[id].device)]

\* Mutant of TableLockFree: the lock is handed out while it is held.
TableLockFree_Always == TRUE

\* state.lock().await succeeds only while nobody holds the table lock.
TableLockFree == table_lock = None

EmptyTable == [id \in {} |-> id]

\* Mutant of Remove: the entry stays.
Remove_Keeps(table, id) == table

\* HashMap::insert and HashMap::remove.
Insert(table, id, entry) ==
    [k \in DOMAIN table \cup {id} |-> IF k = id THEN entry ELSE table[k]]
Remove(table, id) == [k \in DOMAIN table \ {id} |-> table[k]]

MInit ==
    /\ devices = EmptyTable
    /\ next_device_id = 1
    /\ table_lock = None
    /\ pc = [t \in Tasks |-> "idle"]
    /\ op = [t \in Tasks |-> NoRequest]
    /\ local = [t \in Tasks |-> None]
    /\ info = [t \in Tasks |-> None]
    /\ returned = NoResponse
    /\ issued = <<>>
    /\ disconnected = {}
    /\ clock = 0

\* ------------------------------------------------- the handler's device call
\* Connect and Disconnect work on a device the handler owns; the other
\* requests work on the device inside the table entry.
OnLocal(t) == op[t].name \in {"Connect", "Disconnect"}
Dev(t) == IF OnLocal(t) THEN TheOne(local[t]) ELSE devices[op[t].id].device

\* Mutant of Return: a call that fails returns with the table lock held.
Return_KeepsLockOnError(t, d, status, err, value) ==
    /\ IF op[t].name = "Connect"
       THEN /\ pc' = [pc EXCEPT ![t] = IF status = "ok" THEN "c_lock" ELSE "idle"]
            /\ local' = [local EXCEPT ![t] = IF status = "ok" THEN Some(d) ELSE None]
            /\ info' = [info EXCEPT ![t] = IF status = "ok" THEN value ELSE None]
            /\ op' = [op EXCEPT ![t] = IF status = "ok" THEN @ ELSE NoRequest]
            /\ returned' = IF status = "ok" THEN NoResponse
                           ELSE Response(op[t], Res("err", err, NoId, None))
            /\ UNCHANGED <<devices, table_lock>>
       ELSE /\ pc' = [pc EXCEPT ![t] = "idle"]
            /\ table_lock' = IF status = "err" THEN table_lock ELSE None
            /\ op' = [op EXCEPT ![t] = NoRequest]
            /\ returned' = Response(op[t], Res(status, err, op[t].id, value))
            /\ IF op[t].name = "Disconnect"
               THEN local' = [local EXCEPT ![t] = None] /\ UNCHANGED devices
               ELSE /\ devices' = [devices EXCEPT ![op[t].id].device = d]
                    /\ UNCHANGED local
            /\ UNCHANGED info
    /\ UNCHANGED dvars
    /\ UNCHANGED <<next_device_id, issued, disconnected>>

\* The device call of task t returns, leaving the device as d: the handler
\* runs to its end (or, for Connect after identify, to state.lock().await).
Return(t, d, status, err, value) ==
    /\ IF op[t].name = "Connect"
       THEN /\ pc' = [pc EXCEPT ![t] = IF status = "ok" THEN "c_lock" ELSE "idle"]
            /\ local' = [local EXCEPT ![t] = IF status = "ok" THEN Some(d) ELSE None]
            /\ info' = [info EXCEPT ![t] = IF status = "ok" THEN value ELSE None]
            /\ op' = [op EXCEPT ![t] = IF status = "ok" THEN @ ELSE NoRequest]
            /\ returned' = IF status = "ok" THEN NoResponse
                           ELSE Response(op[t], Res("err", err, NoId, None))
            /\ UNCHANGED <<devices, table_lock>>
       ELSE /\ pc' = [pc EXCEPT ![t] = "idle"]
            /\ table_lock' = None
            /\ op' = [op EXCEPT ![t] = NoRequest]
            /\ returned' = Response(op[t], Res(status, err, op[t].id, value))
            /\ IF op[t].name = "Disconnect"
               THEN local' = [local EXCEPT ![t] = None] /\ UNCHANGED devices
               ELSE /\ devices' = [devices EXCEPT ![op[t].id].device = d]
                    /\ UNCHANGED local
            /\ UNCHANGED info
    /\ UNCHANGED dvars
    /\ UNCHANGED <<next_device_id, issued, disconnected>>

\* The device call of task t suspends at `at`, leaving the device as d.
Suspend(t, d, at) ==
    /\ pc' = [pc EXCEPT ![t] = at]
    /\ IF OnLocal(t)
       THEN local' = [local EXCEPT ![t] = Some(d)] /\ UNCHANGED devices
       ELSE devices' = [devices EXCEPT ![op[t].id].device = d] /\ UNCHANGED local
    /\ returned' = NoResponse
    /\ UNCHANGED dvars
    /\ UNCHANGED <<next_device_id, table_lock, op, info, issued, disconnected>>

\* Requests in flight that will read Instant::now(): a Connect or a Reset
\* of a Mock.
ClockReaders ==
    {u \in Tasks : \/ op[u].name = "Reset"
                   \/ op[u].name = "Connect" /\ op[u].device_type = "Mock"}
ClockLeft == clock + Cardinality(ClockReaders) < MaxTicks

\* Handlers are anonymous tasks spawned per request: a new request is served
\* by the first task that is not serving one.
FreeSlot(t) == pc[t] = "idle" /\ \A u \in Tasks : u < t => pc[u] # "idle"

\* ------------------------------------------------------------------ Connect
\* Mutant of ConnectInvalidType: the rejected Connect uses up an identifier.
ConnectInvalidType_Advances(t) ==
    /\ FreeSlot(t)
    /\ next_device_id <= MaxSessions
    /\ \E r \in ConnectRequests :
        /\ r.device_type \notin {"Fluke289", "Fluke287", "Mock"}
        /\ returned' = Response(r, Res("err", "InvalidType", NoId, None))
    /\ next_device_id' = U32Succ(next_device_id)
    /\ UNCHANGED dvars
    /\ UNCHANGED <<devices, table_lock, pc, op, local, info,
                   issued, disconnected, clock>>

\* connect_device, unknown device type: early return.
ConnectInvalidType(t) ==
    /\ FreeSlot(t)
    /\ \E r \in ConnectRequests :
        /\ r.device_type \notin {"Fluke289", "Fluke287", "Mock"}
        /\ returned' = Response(r, Res("err", "InvalidType", NoId, None))
    /\ UNCHANGED dvars
    /\ UNCHANGED <<devices, next_device_id, table_lock, pc, op, local, info,
                   issued, disconnected, clock>>

\* connect_device on a Fluke type without a port: FlukeDevice::connect
\* fails with Config before anything is opened.
ConnectNoPort(t) ==
    /\ FreeSlot(t)
    /\ \E r \in ConnectRequests :
        /\ r.device_type \in {"Fluke289", "Fluke287"}
        /\ r.port = None
        /\ returned' = Response(r, Res("err", "Config", NoId, None))
    /\ UNCHANGED dvars
    /\ UNCHANGED <<devices, next_device_id, table_lock, pc, op, local, info,
                   issued, disconnected, clock>>

\* connect_device on a Fluke type whose serial port cannot be opened.
ConnectOpenFails(t) ==
    /\ FreeSlot(t)
    /\ \E r \in ConnectRequests :
        /\ r.device_type \in {"Fluke289", "Fluke287"}
        /\ r.port # None
        /\ returned' = Response(r, Res("err", "Serial", NoId, None))
    /\ UNCHANGED dvars
    /\ UNCHANGED <<devices, next_device_id, table_lock, pc, op, local, info,
                   issued, disconnected, clock>>

\* connect_device up to the delay inside device.connect(): the device is
\* created; a Fluke has opened its port and holds its own port lock.
ConnectBegin(t) ==
    /\ FreeSlot(t)
    /\ next_device_id + Cardinality({u \in Tasks : op[u].name = "Connect"})
           <= MaxSessions
    /\ \E r \in ConnectRequests :
        /\ \/ r.device_type = "Mock" /\ ClockLeft
           \/ r.device_type \in {"Fluke289", "Fluke287"} /\ r.port # None
        /\ op' = [op EXCEPT ![t] = r]
        /\ LET d == CreateDevice(r.device_type, r.port)
           IN local' = [local EXCEPT ![t] =
                  Some(IF d.kind = "Fluke"
                       THEN [d EXCEPT !.port_lock = Some(t)] ELSE d)]
    /\ pc' = [pc EXCEPT ![t] = "c_sleep"]
    /\ returned' = NoResponse
    /\ UNCHANGED dvars
    /\ UNCHANGED <<devices, next_device_id, table_lock, info, issued,
                   disconnected, clock>>

\* device.connect() returns Ok and device.identify() starts: the Mock goes
\* into its identification delay; the Fluke locks its port, writes ID and
\* sleeps the settle delay.
ConnectIdentify(t) ==
    /\ pc[t] = "c_sleep"
    /\ LET d == TheOne(local[t])
       IN IF d.kind = "Mock"
          THEN /\ \E k \in SessionProfileDraws :
                      Suspend(t, MockConnected(d, clock + 1, k), "m_sleep")
               /\ clock' = clock + 1
          ELSE /\ Suspend(t, [FlukeOpened(d) EXCEPT !.port_lock = Some(t)], "x_settle")
               /\ UNCHANGED clock

\* Mutant of ConnectIdentifyWriteFails: the entry is inserted before
\* identify() has succeeded, and stays when it fails.
ConnectIdentifyWriteFails_Inserts(t) ==
    /\ pc[t] = "c_sleep"
    /\ TheOne(local[t]).kind = "Fluke"
    /\ TableLockFree
    /\ devices' = Insert(devices, FormatDeviceId(next_device_id),
           [device_type |-> op[t].device_type, info |-> TheOne(FlukeInfos),
            device |-> FlukeOpened(TheOne(local[t]))])
    /\ pc' = [pc EXCEPT ![t] = "idle"]
    /\ local' = [local EXCEPT ![t] = None]
    /\ op' = [op EXCEPT ![t] = NoRequest]
    /\ returned' = Response(op[t], Res("err", "Io", NoId, None))
    /\ UNCHANGED dvars
    /\ UNCHANGED <<next_device_id, table_lock, info, issued, disconnected, clock>>

\* device.connect() returns Ok on a Fluke and the write of ID fails:
\* identify() returns the I/O error and the device is dropped.
ConnectIdentifyWriteFails(t) ==
    /\ pc[t] = "c_sleep"
    /\ TheOne(local[t]).kind = "Fluke"
    /\ Return(t, FlukeOpened(TheOne(local[t])), "err", "Io", None)
    /\ UNCHANGED clock

\* The tail of connect_device: take the table lock, allocate the identifier,
\* insert the entry, return.
ConnectCommit(t) ==
    /\ pc[t] = "c_lock"
    /\ TableLockFree
    /\ LET device_id == FormatDeviceId(next_device_id)
       IN /\ devices' = Insert(devices, device_id,
                 [device_type |-> op[t].device_type, info |-> TheOne(info[t]),
                  device |-> TheOne(local[t])])
          /\ returned' = Response(op[t], Res("ok", "", device_id, info[t]))
          /\ issued' = Append(issued, device_id)
    /\ next_device_id' = U32Succ(next_device_id)
    /\ local' = [local EXCEPT ![t] = None]
    /\ info' = [info EXCEPT ![t] = None]
    /\ op' = [op EXCEPT ![t] = NoRequest]
    /\ pc' = [pc EXCEPT ![t] = "idle"]
    /\ UNCHANGED dvars
    /\ UNCHANGED <<table_lock, disconnected, clock>>

\* --------------------------------------------------------- session requests
\* Every handler of a request that names a session starts with
\* state.lock().await: it goes on once the table lock is free.
RequestsNamed(names) == {r \in SessionRequests : r.name \in names}

\* Mutant of LookupNotFound: the unknown identifier gets an entry.
LookupNotFound_Creates(t) ==
    /\ FreeSlot(t)
    /\ TableLockFree
    /\ \E r \in SessionRequests :
        /\ r.name # "ListConnected"
        /\ r.id \notin DOMAIN devices
        /\ returned' = Response(r, Res("err", "NotFound", r.id, None))
        /\ devices' = Insert(devices, r.id,
               [device_type |-> "Mock", info |-> MockInfo, device |-> NewMock])
    /\ UNCHANGED dvars
    /\ UNCHANGED <<next_device_id, table_lock, pc, op, local, info,
                   issued, disconnected, clock>>

\* disconnect_device / get_measurement / get_device_status / reset_device /
\* send_raw_command, the else branch: the identifier is not in the table.
LookupNotFound(t) ==
    /\ FreeSlot(t)
    /\ TableLockFree
    /\ \E r \in SessionRequests :
        /\ r.name # "ListConnected"
        /\ r.id \notin DOMAIN devices
        /\ returned' = Response(r, Res("err", "NotFound", r.id, None))
    /\ UNCHANGED dvars
    /\ UNCHANGED <<devices, next_device_id, table_lock, pc, op, local, info,
                   issued, disconnected, clock>>

\* get_device_status on a known identifier.
GetStatus(t) ==
    /\ FreeSlot(t)
    /\ TableLockFree
    /\ \E r \in RequestsNamed({"GetStatus"}) :
        /\ r.id \in DOMAIN devices
        /\ returned' = Response(r, Res("ok", "", r.id, Some(ListItem(r.id))))
    /\ UNCHANGED dvars
    /\ UNCHANGED <<devices, next_device_id, table_lock, pc, op, local, info,
                   issued, disconnected, clock>>

\* get_connected_devices.
ListConnected(t) ==
    /\ FreeSlot(t)
    /\ TableLockFree
    /\ \E r \in RequestsNamed({"ListConnected"}) :
        returned' = Response(r,
            Res("ok", "", NoId, {ListItem(id) : id \in DOMAIN devices}))
    /\ UNCHANGED dvars
    /\ UNCHANGED <<devices, next_device_id, table_lock, pc, op, local, info,
                   issued, disconnected, clock>>

\* get_measurement / reset_device / send_raw_command on a known identifier:
\* the table lock is taken and the device call starts under it. A Mock goes
\* into its simulated delay; a Fluke locks its port, writes the command and
\* sleeps the settle delay. A device that is not connected refuses at once.
DeviceCallBegin(t) ==
    /\ FreeSlot(t)
    /\ TableLockFree
    /\ \E r \in RequestsNamed({"GetMeasurement", "Reset", "SendRawCommand"}) :
        /\ r.id \in DOMAIN devices
        /\ LET d == devices[r.id].device
           IN /\ d.port_lock = None
              /\ (d.kind = "Mock" /\ r.name = "Reset") => ClockLeft
              /\ (d.kind = "Mock" /\ r.name # "Reset")
                     => d.measurement_count < MaxTicks
              /\ IF (d.kind = "Mock" /\ ~d.connected)
                    \/ (d.kind = "Fluke" /\ d.port = None)
                 THEN /\ returned' = Response(r,
                             Res("err", "Connection", r.id, None))
                      /\ UNCHANGED <<devices, table_lock, pc, op>>
                 ELSE /\ devices' = [devices EXCEPT ![r.id].device =
                             IF d.kind = "Fluke"
                             THEN [d EXCEPT !.port_lock = Some(t)] ELSE d]
                      /\ pc' = [pc EXCEPT ![t] =
                             IF d.kind = "Mock" THEN "m_sleep" ELSE "x_settle"]
                      /\ op' = [op EXCEPT ![t] = r]
                      /\ table_lock' = Some(t)
                      /\ returned' = NoResponse
    /\ UNCHANGED dvars
    /\ UNCHANGED <<next_device_id, local, info, issued, disconnected, clock>>

\* The same requests on a Fluke whose write_all/flush fails: the call returns
\* the I/O error with nothing suspended in between.
DeviceCallWriteFails(t) ==
    /\ FreeSlot(t)
    /\ TableLockFree
    /\ \E r \in RequestsNamed({"GetMeasurement", "Reset", "SendRawCommand"}) :
        /\ r.id \in DOMAIN devices
        /\ LET d == devices[r.id].device
           IN d.kind = "Fluke" /\ d.port # None /\ d.port_lock = None
        /\ returned' = Response(r, Res("err", "Io", r.id, None))
    /\ UNCHANGED dvars
    /\ UNCHANGED <<devices, next_device_id, table_lock, pc, op, local, info,
                   issued, disconnected, clock>>

\* disconnect_device on a known identifier: the entry is removed under the
\* table lock and device.disconnect() runs on the extracted device. A Fluke
\* drops its port handle and returns at once; a connected Mock goes into its
\* disconnection delay with the table lock still held.
DisconnectRemove(t) ==
    /\ FreeSlot(t)
    /\ TableLockFree
    /\ \E r \in RequestsNamed({"Disconnect"}) :
        /\ r.id \in DOMAIN devices
        /\ LET d == devices[r.id].device
           IN /\ d.port_lock = None
              /\ IF d.kind = "Mock" /\ d.connected
                 THEN /\ local' = [local EXCEPT ![t] = Some(d)]
                      /\ pc' = [pc EXCEPT ![t] = "m_sleep"]
                      /\ op' = [op EXCEPT ![t] = r]
                      /\ table_lock' = Some(t)
                      /\ returned' = NoResponse
                 ELSE /\ returned' = Response(r, Res("ok", "", r.id, None))
                      /\ UNCHANGED <<local, table_lock, pc, op>>
        /\ devices' = Remove(devices, r.id)
        /\ disconnected' = disconnected \cup {r.id}
    /\ UNCHANGED dvars
    /\ UNCHANGED <<next_device_id, info, issued, clock>>

\* ---------------------------------------------------------- Mock device call
\* The simulated delay of a Mock call ends and the call completes.
MockWake(t) ==
    /\ pc[t] = "m_sleep"
    /\ LET d == Dev(t)
           now == clock + 1
       IN CASE op[t].name = "Connect" ->
                   Return(t, d, "ok", "", Some(MockInfo)) /\ UNCHANGED clock
            [] op[t].name = "Disconnect" ->
                   Return(t, MockDisconnected(d), "ok", "", None) /\ UNCHANGED clock
            [] op[t].name = "Reset" ->
                   Return(t, MockReset(d, now), "ok", "", None) /\ clock' = now
            [] op[t].name = "GetMeasurement"
               \/ (op[t].name = "SendRawCommand" /\ ToUpper(op[t].command) = "QM") ->
                   /\ \E k \in SessionProfileDraws :
                          Return(t, GenerateMeasurement(d, now, k), "ok", "", None)
                   /\ clock' = IF d.started_at = None THEN now ELSE clock
            [] OTHER ->
                   Return(t, d, "ok", "", None) /\ UNCHANGED clock

\* --------------------------------------- Fluke exchange, by suspension point
\* What send_command_internal and the decoding after it can end in.
ExchangeErrors == {"Timeout", "Io", "Parse", "InvalidCommand", "Device"}

\* The settle delay ends and the read loop starts. Inside the loop the
\* handler suspends in each read and in each READ_BACKOFF sleep; attempts
\* that neither complete the response nor fail leave it there.
XSettled(t) ==
    /\ UNCHANGED clock
    /\ pc[t] = "x_settle"
    /\ Suspend(t, Dev(t), "x_read")

\* A read attempt ends the loop and the response decodes.
XReadOk(t) ==
    /\ UNCHANGED clock
    /\ pc[t] = "x_read"
    /\ LET d == [Dev(t) EXCEPT !.port_lock = None]
       IN IF op[t].name = "Connect"
          THEN \E i \in FlukeInfos : Return(t, d, "ok", "", Some(i))
          ELSE Return(t, d, "ok", "", None)

\* Mutant of XReadFails: a call that fails on a session drops the session.
XReadFails_Drops(t) ==
    /\ pc[t] = "x_read"
    /\ op[t].name # "Connect"
    /\ devices' = Remove(devices, op[t].id)
    /\ pc' = [pc EXCEPT ![t] = "idle"]
    /\ table_lock' = None
    /\ op' = [op EXCEPT ![t] = NoRequest]
    /\ returned' = Response(op[t], Res("err", "Io", op[t].id, None))
    /\ UNCHANGED dvars
    /\ UNCHANGED <<next_device_id, local, info, issued, disconnected, clock>>

\* A read attempt ends the call with a failure (timeout, I/O error) or the
\* response fails to decode.
XReadFails(t) ==
    /\ UNCHANGED clock
    /\ pc[t] = "x_read"
    /\ \E e \in ExchangeErrors :
        /\ op[t].name = "SendRawCommand" => e \in {"Timeout", "Io", "Parse"}
        /\ Return(t, [Dev(t) EXCEPT !.port_lock = None], "err", e, None)

\* ---------------------------------------------------------------- manager
MNext ==
    \E t \in Tasks :
        \/ ConnectInvalidType(t)
        \/ ConnectNoPort(t)
        \/ ConnectOpenFails(t)
        \/ ConnectBegin(t)
        \/ ConnectIdentify(t)
        \/ ConnectIdentifyWriteFails(t)
        \/ ConnectCommit(t)
        \/ LookupNotFound(t)
        \/ GetStatus(t)
        \/ ListConnected(t)
        \/ DeviceCallBegin(t)
        \/ DeviceCallWriteFails(t)
        \/ DisconnectRemove(t)
        \/ MockWake(t)
        \/ XSettled(t)
        \/ XReadOk(t)
        \/ XReadFails(t)

\* =====================================================================
\* One device instance and its caller (DevSpec)
\* =====================================================================
ACK_TIMEOUT == 5000          \* ms
PAYLOAD_IDLE_TIMEOUT == 750  \* ms
READ_BACKOFF == 10           \* ms
PORT_TIMEOUT == 1000         \* ms: the timeout the port is opened with

MaxCmds == 2        \* commands written to the instrument
MaxOpens == 2       \* times the serial port is opened
MaxZeroReads == 1   \* reads returning Ok(0) within one exchange
MaxDevTicks == 2    \* cap of clock and measurement_count for the one instance

CR == "\r"
LF == "\n"

\* A byte on the line: the symbol and the command it was sent in reply to.
\* A symbol is one character, or a run of characters that no operation of
\* the code separates (a number, a token, a name).
Byte(ch, of) == [ch |-> ch, of |-> of]
Tagged(text, of) == [i \in DOMAIN text |-> Byte(text[i], of)]
Text(bytes) == [i \in DOMAIN bytes |-> bytes[i].ch]

\* What the instrument may send in reply to one command.
Replies == {<<>>,
            <<"0", CR>>,
            <<"0", CR, "p", CR>>,
            <<"1", CR>>}

\* --------------------------------------------------------------- calls
Call(name, command) == [name |-> name, command |-> command]
NoCall == Call("", "")
DevCommands == {"ID", "qm", "XX"}
DevCalls == {Call(n, "") : n \in {"identify", "get_measurement", "reset"}}
            \cup {Call("send_command", c) : c \in DevCommands}

\* What a device call returns: Ok or Err with the error's variant, the value,
\* and for a Fluke exchange the number of the command that was written.
DRes(name, status, err, value, cmd) ==
    [name |-> name, status |-> status, err |-> err, value |-> value, cmd |-> cmd]
NoDRes == DRes("", "none", "", <<>>, 0)

\* ------------------------------------------------- normalising the response
IndexOf(s, c) == IF \E i \in DOMAIN s : s[i].ch = c
                 THEN CHOOSE i \in DOMAIN s :
                          s[i].ch = c /\ \A j \in 1..(i - 1) : s[j].ch # c
                 ELSE 0

RECURSIVE Split(_, _)
\* str::split(c): the segments between occurrences of c, empty ones kept.
Split(s, c) ==
    LET i == IndexOf(s, c)
    IN IF i = 0 THEN <<s>>
       ELSE <<SubSeq(s, 1, i - 1)>> \o Split(SubSeq(s, i + 1, Len(s)), c)

RECURSIVE TrimEndMatches(_, _)
\* str::trim_end_matches(c)
TrimEndMatches(s, c) ==
    IF s # <<>> /\ s[Len(s)].ch = c
    THEN TrimEndMatches(SubSeq(s, 1, Len(s) - 1), c) ELSE s

RECURSIVE Flatten(_)
Flatten(ss) == IF ss = <<>> THEN <<>> ELSE Head(ss) \o Flatten(Tail(ss))

\* Mutant of Lines: the lines come out last first.
Lines_Reversed(resp) ==
    LET segs == Split(resp, CR)
        trimmed == [i \in DOMAIN segs |-> TrimEndMatches(segs[i], LF)]
        lines == SelectSeq(trimmed, LAMBDA l : l # <<>>)
    IN [i \in DOMAIN lines |-> lines[Len(lines) + 1 - i]]

\* The lines of the response: split on '\r', trailing '\n' trimmed, empty
\* lines filtered out.
Lines(resp) ==
    LET segs == Split(resp, CR)
        trimmed == [i \in DOMAIN segs |-> TrimEndMatches(segs[i], LF)]
    IN SelectSeq(trimmed, LAMBDA l : l # <<>>)

\* Mutant of Normalise: a response without a non-empty line is returned as
\* an empty text.
Normalise_EmptyOutput(resp) ==
    IF resp = <<>> THEN [status |-> "err", err |-> "Timeout", output |-> <<>>]
    ELSE [status |-> "ok", err |-> "", output |-> Flatten(Lines(resp))]

\* The tail of send_command_internal, after the read loop.
Normalise(resp) ==
    IF resp = <<>> THEN [status |-> "err", err |-> "Timeout", output |-> <<>>]
    ELSE IF Lines(resp) = <<>>
    THEN [status |-> "err", err |-> "Parse", output |-> <<>>]
    ELSE [status |-> "ok", err |-> "", output |-> Flatten(Lines(resp))]

\* ----------------------------------------------------------------- decoding
\* Mutant of ParseAck: every acknowledgement is taken for success.
ParseAck_AcceptsAll(text) == ""

\* Mutant of ParseAck: the last character decides.
ParseAck_LastCharacter(text) ==
    IF text = <<>> THEN "Parse"
    ELSE CASE text[Len(text)].ch = "0" -> ""
           [] text[Len(text)].ch = "1" -> "InvalidCommand"
           [] text[Len(text)].ch \in {"2", "5"} -> "Device"
           [] OTHER -> "Parse"

\* FlukeDevice::parse_ack: "" when the acknowledgement is 0, else the error.
ParseAck(text) ==
    IF text = <<>> THEN "Parse"
    ELSE CASE text[1].ch = "0" -> ""
           [] text[1].ch = "1" -> "InvalidCommand"
           [] text[1].ch \in {"2", "5"} -> "Device"
           [] OTHER -> "Parse"

\* The message parse_ack puts into the error.
AckMessage(text) ==
    IF text = <<>> THEN "Empty response"
    ELSE CASE text[1].ch = "0" -> ""
           [] text[1].ch = "1" -> "Syntax error"
           [] text[1].ch = "2" -> "Execution error"
           [] text[1].ch = "5" -> "No data available"
           [] OTHER -> "Unknown ACK code"

RECURSIVE TrimStart(_)
TrimStart(s) == IF s # <<>> /\ s[1].ch = " " THEN TrimStart(Tail(s)) ELSE s
\* str::trim, over the whitespace the model's lines can hold.
Trim(s) == TrimEndMatches(TrimStart(s), " ")

UnitTable == [NONE |-> "None", VDC |-> "VoltDc", VAC |-> "VoltAc",
              ADC |-> "AmpDc", AAC |-> "AmpAc", VAC_PLUS_DC |-> "VoltAcPlusDc",
              AAC_PLUS_DC |-> "AmpAcPlusDc", V |-> "Volt", A |-> "Amp",
              OHM |-> "Ohm", S |-> "Siemens", Hz |-> "Hertz", SEC |-> "Second",
              F |-> "Farad", CEL |-> "Celsius", FAR |-> "Fahrenheit",
              PCT |-> "Percent", dBm |-> "DecibelM", dBV |-> "DecibelV",
              dB |-> "Decibel", CREST_FACTOR |-> "CrestFactor"]
StateTable == [NORMAL |-> "Normal", INVALID |-> "Invalid", BLANK |-> "Blank",
               OL |-> "Overload", OL_MINUS |-> "OverloadNegative",
               OPEN_TC |-> "OpenThermocouple", DISCHARGE |-> "Discharge"]
AttributeTable == [NONE |-> "None", OPEN_CIRCUIT |-> "OpenCircuit",
                   SHORT_CIRCUIT |-> "ShortCircuit",
                   GLITCH_CIRCUIT |-> "GlitchCircuit",
                   GOOD_DIODE |-> "GoodDiode", LEO_OHMS |-> "LowOhms",
                   NEGATIVE_EDGE |-> "NegativeEdge",
                   POSITIVE_EDGE |-> "PositiveEdge",
                   HIGH_CURRENT |-> "HighCurrent"]

\* parse_unit / parse_state / parse_attribute: the value of a token, or
\* None for a token outside the table (the Parse error).
Lookup(table, field) ==
    IF Len(field) = 1 /\ field[1].ch \in DOMAIN table
    THEN Some(table[field[1].ch]) ELSE None

\* str::parse::<f64> on the decimal texts the model sends, the value given in
\* tenths; it fails on every other text.
F64Of == ("3.300000" :> 33) @@ ("3.3" :> 33) @@ ("-0.5" :> -5) @@ ("1e1" :> 100)
Numbers == DOMAIN F64Of
ParseF64(field) ==
    IF Len(field) = 1 /\ field[1].ch \in Numbers
    THEN Some(F64Of[field[1].ch]) ELSE None

\* Mutant of ParseMeasurement: an unknown unit token is read as Unit::None.
ParseMeasurement_DefaultsUnit(payload) ==
    LET parts == Split(payload, ",") IN
    IF Len(parts) < 4 THEN [status |-> "err", err |-> "Parse", value |-> <<>>]
    ELSE LET value == ParseF64(Trim(parts[1]))
             unit == IF Lookup(UnitTable, Trim(parts[2])) = None
                     THEN Some("None") ELSE Lookup(UnitTable, Trim(parts[2]))
             state == Lookup(StateTable, Trim(parts[3]))
             attribute == Lookup(AttributeTable, Trim(parts[4]))
         IN IF None \in {value, unit, state, attribute}
            THEN [status |-> "err", err |-> "Parse", value |-> <<>>]
            ELSE [status |-> "ok", err |-> "",
                  value |-> <<TheOne(value), TheOne(unit), TheOne(state),
                              TheOne(attribute)>>]

\* FlukeDevice::parse_measurement on the payload.
ParseMeasurement(payload) ==
    LET parts == Split(payload, ",") IN
    IF Len(parts) < 4 THEN [status |-> "err", err |-> "Parse", value |-> <<>>]
    ELSE LET value == ParseF64(Trim(parts[1]))
             unit == Lookup(UnitTable, Trim(parts[2]))
             state == Lookup(StateTable, Trim(parts[3]))
             attribute == Lookup(AttributeTable, Trim(parts[4]))
         IN IF None \in {value, unit, state, attribute}
            THEN [status |-> "err", err |-> "Parse", value |-> <<>>]
            ELSE [status |-> "ok", err |-> "",
                  value |-> <<TheOne(value), TheOne(unit), TheOne(state),
                              TheOne(attribute)>>]

\* FlukeDevice::identify after parse_ack: three comma-separated fields.
ParseIdentify(payload) ==
    LET parts == Split(payload, ",") IN
    IF Len(parts) < 3 THEN [status |-> "err", err |-> "Parse", value |-> <<>>]
    ELSE [status |-> "ok", err |-> "",
          value |-> <<Text(Trim(parts[1])), Text(Trim(parts[2])),
                      Text(Trim(parts[3]))>>]

\* What the call returns once send_command_internal has returned `output`.
Decode(call, output) ==
    IF call.name = "send_command"
    THEN [status |-> "ok", err |-> "", value |-> output]
    ELSE IF ParseAck(output) # ""
    THEN [status |-> "err", err |-> ParseAck(output), value |-> <<>>]
    ELSE CASE call.name = "reset" -> [status |-> "ok", err |-> "", value |-> <<>>]
           [] call.name = "identify" -> ParseIdentify(Tail(output))
           [] call.name = "get_measurement" -> ParseMeasurement(Tail(output))

\* ------------------------------------------------------------- device state
munch == <<devices, next_device_id, table_lock, pc, op, local, info, returned,
           issued, disconnected, cin, cout>>
xvars == <<response, carriage_returns, ack_received, elapsed, zero_reads>>

DevInstances == {NewMock, NewFluke("Fluke289", Some("COM3")),
                 NewFluke("Fluke289", None)}

\* A codec function applied to an argument.
Applied(fn, kind, arg) == [fn |-> fn, kind |-> kind, arg |-> arg]
NoApplied == Applied("", "", "")

\* No codec function is being applied.
CodecIdle == cin = NoApplied /\ cout = <<>>

\* No call is in progress on the device instance.
DevQuiet ==
    /\ dpc = "idle"
    /\ dcall = NoCall
    /\ dres = NoDRes
    /\ wire = <<>>
    /\ rx = <<>>
    /\ response = <<>>
    /\ carriage_returns = 0
    /\ ack_received = FALSE
    /\ elapsed = 0
    /\ zero_reads = 0
    /\ sent = 0
    /\ opens = 0

DevIdle == CodecIdle /\ DevQuiet

DevInit == MInit /\ DevIdle /\ dev \in DevInstances

\* A call that does not suspend returns res, leaving the device as d.
DevReturn(d, res) ==
    /\ dev' = d
    /\ dres' = res
    /\ UNCHANGED <<dpc, dcall, wire, rx, xvars, sent, opens, munch>>

\* ------------------------------------------------------------- Mock device
\* Mutant of DevMockConnect: connect() on a connected Mock re-arms the
\* measurement counter.
DevMockConnect_Rearm ==
    /\ dpc = "idle"
    /\ dev.kind = "Mock"
    /\ IF dev.connected
       THEN /\ DevReturn([dev EXCEPT !.measurement_count = 0],
                         DRes("connect", "ok", "", <<>>, 0))
            /\ UNCHANGED clock
       ELSE /\ clock < MaxDevTicks
            /\ \E k \in ProfileDraws :
                   DevReturn(MockConnected(dev, clock + 1, k),
                             DRes("connect", "ok", "", <<>>, 0))
            /\ clock' = clock + 1

\* MockDevice::connect.
DevMockConnect ==
    /\ dpc = "idle"
    /\ dev.kind = "Mock"
    /\ IF dev.connected
       THEN /\ DevReturn(dev, DRes("connect", "ok", "", <<>>, 0))
            /\ UNCHANGED clock
       ELSE /\ clock < MaxDevTicks
            /\ \E k \in ProfileDraws :
                   DevReturn(MockConnected(dev, clock + 1, k),
                             DRes("connect", "ok", "", <<>>, 0))
            /\ clock' = clock + 1

\* MockDevice::disconnect.
DevMockDisconnect ==
    /\ dpc = "idle"
    /\ dev.kind = "Mock"
    /\ DevReturn(IF dev.connected THEN MockDisconnected(dev) ELSE dev,
                 DRes("disconnect", "ok", "", <<>>, 0))
    /\ UNCHANGED clock

\* MockMeasurementProfile::unit.
ProfileUnit(kind) ==
    CASE kind = "VoltageSine" -> "VoltDc"
      [] kind = "TemperatureDrift" -> "Celsius"
      [] kind = "ResistanceSweep" -> "Ohm"
      [] kind = "FrequencyPulse" -> "Hertz"
      [] kind = "CurrentSine" -> "AmpDc"

\* The Measurement generate_measurement returns for the device as it is
\* after the call; the sampled value is one number.
MockMeasurement(d) ==
    <<"3.300000", ProfileUnit(TheOne(d.profile)), "Normal", "None">>

\* The token tables of MockDevice::send_command's "QM" arm.
MockUnitStr(unit) ==
    CASE unit = "VoltDc" -> "VDC" [] unit = "VoltAc" -> "VAC"
      [] unit = "AmpDc" -> "ADC" [] unit = "AmpAc" -> "AAC"
      [] unit = "Ohm" -> "OHM" [] unit = "Hertz" -> "Hz"
      [] unit = "Celsius" -> "CEL" [] unit = "Fahrenheit" -> "FAR"
      [] OTHER -> "NONE"
MockStateStr(state) ==
    CASE state = "Normal" -> "NORMAL" [] state = "Overload" -> "OL"
      [] OTHER -> "NORMAL"
MockAttrStr(attribute) ==
    CASE attribute = "None" -> "NONE" [] attribute = "GoodDiode" -> "GOOD_DIODE"
      [] attribute = "PositiveEdge" -> "POSITIVE_EDGE"
      [] OTHER -> "NONE"

\* format!("0\r{:.6},{},{},{}\r", ...)
MockQmText(m) ==
    <<"0", CR, m[1], ",", MockUnitStr(m[2]), ",", MockStateStr(m[3]), ",",
      MockAttrStr(m[4]), CR>>

MockIdText == <<"0", CR, "MOCK-MULTIMETER", ",", "V1.0.0-MOCK", ",",
                "MOCK123456", CR>>

\* MockDevice::identify / get_measurement / reset / send_command.
DevMockCall ==
    /\ dpc = "idle"
    /\ dev.kind = "Mock"
    /\ \E call \in DevCalls :
        LET upper == ToUpper(call.command)
            measures == call.name = "get_measurement"
                        \/ (call.name = "send_command" /\ upper = "QM")
            now == clock + 1
        IN IF ~dev.connected
           THEN /\ DevReturn(dev, DRes(call.name, "err", "Connection", <<>>, 0))
                /\ UNCHANGED clock
           ELSE IF measures
           THEN /\ dev.measurement_count < MaxDevTicks
                /\ \E k \in ProfileDraws :
                     LET d == GenerateMeasurement(dev, now, k)
                     IN DevReturn(d, DRes(call.name, "ok", "",
                            IF call.name = "get_measurement"
                            THEN MockMeasurement(d)
                            ELSE Tagged(MockQmText(MockMeasurement(d)), 0), 0))
                /\ clock' = IF dev.started_at = None THEN now ELSE clock
           ELSE IF call.name = "reset"
           THEN /\ clock < MaxDevTicks
                /\ DevReturn(MockReset(dev, now), DRes("reset", "ok", "", <<>>, 0))
                /\ clock' = now
           ELSE IF call.name = "identify"
           THEN /\ DevReturn(dev, DRes("identify", "ok", "",
                        <<MockInfo.model, MockInfo.software_version,
                          MockInfo.serial_number>>, 0))
                /\ UNCHANGED clock
           ELSE /\ DevReturn(dev, DRes("send_command", "ok", "",
                        Tagged(CASE upper = "ID" -> MockIdText
                                 [] upper \in {"RI", "RMP", "DS"} -> <<"0", CR>>
                                 [] OTHER -> <<"1", CR>>, 0), 0))
                /\ UNCHANGED clock

\* is_connected of either variant.
DevIsConnected ==
    /\ dpc = "idle"
    /\ DevReturn(dev, DRes("is_connected", "ok", "", <<IsConnected(dev)>>, 0))
    /\ UNCHANGED clock

\* ------------------------------------------------------------ Fluke device
\* FlukeDevice::connect: nothing to do when the handle is there; else the
\* port is opened, its buffers are cleared (a failure to clear is only
\* logged) and the handle is stored.
DevFlukeConnect ==
    /\ dpc = "idle"
    /\ dev.kind = "Fluke"
    /\ dres' = DRes("connect", "ok", "", <<>>, 0)
    /\ IF dev.port # None
       THEN UNCHANGED <<dev, rx, opens>>
       ELSE /\ dev.port_name # None
            /\ opens < MaxOpens
            /\ opens' = opens + 1
            /\ dev' = FlukeOpened(dev)
            /\ rx' \in {<<>>, rx}
    /\ UNCHANGED <<dpc, dcall, wire, xvars, sent, munch, clock>>

\* Mutant of DevFlukeConnectFails: the failed connect() leaves a handle.
DevFlukeConnectFails_StoresHandle ==
    /\ dpc = "idle"
    /\ dev.kind = "Fluke"
    /\ dev.port = None
    /\ DevReturn(FlukeOpened(dev), DRes("connect", "err",
                     IF dev.port_name = None THEN "Config" ELSE "Serial",
                     <<>>, 0))
    /\ UNCHANGED clock

\* FlukeDevice::connect without a port name (Config) or on a port that does
\* not open (Serial).
DevFlukeConnectFails ==
    /\ dpc = "idle"
    /\ dev.kind = "Fluke"
    /\ dev.port = None
    /\ DevReturn(dev, DRes("connect", "err",
                     IF dev.port_name = None THEN "Config" ELSE "Serial",
                     <<>>, 0))
    /\ UNCHANGED clock

\* FlukeDevice::disconnect.
DevFlukeDisconnect ==
    /\ dpc = "idle"
    /\ dev.kind = "Fluke"
    /\ DevReturn(IF dev.port = None THEN dev ELSE FlukeClosed(dev),
                 DRes("disconnect", "ok", "", <<>>, 0))
    /\ UNCHANGED clock

\* Mutant of DevFlukeSend: the call answers without looking for the handle.
DevFlukeSend_Unchecked ==
    /\ dpc = "idle"
    /\ dev.kind = "Fluke"
    /\ \E call \in DevCalls : DevReturn(dev, DRes(call.name, "ok", "", <<>>, 0))
    /\ UNCHANGED clock

\* identify / get_measurement / reset / send_command of the Fluke up to the
\* settle delay of send_command_internal: the port lock is taken; without a
\* handle the call fails with Connection; else the command is written and
\* the instrument will send some reply to it.
DevFlukeSend ==
    /\ dpc = "idle"
    /\ dev.kind = "Fluke"
    /\ \E call \in DevCalls :
        IF dev.port = None
        THEN /\ dres' = DRes(call.name, "err", "Connection", <<>>, 0)
             /\ UNCHANGED <<dev, dpc, dcall, wire, sent>>
        ELSE /\ sent < MaxCmds
             /\ sent' = sent + 1
             /\ \E reply \in Replies : wire' = wire \o Tagged(reply, sent + 1)
             /\ dev' = [dev EXCEPT !.port_lock = Some("caller")]
             /\ dpc' = "settle"
             /\ dcall' = call
             /\ dres' = NoDRes
    /\ UNCHANGED <<rx, xvars, opens, munch, clock>>

\* The same calls when write_all or flush fails.
DevFlukeWriteFails ==
    /\ dpc = "idle"
    /\ dev.kind = "Fluke"
    /\ dev.port # None
    /\ \E call \in DevCalls : DevReturn(dev, DRes(call.name, "err", "Io", <<>>, 0))
    /\ UNCHANGED clock

\* The instrument's bytes reach the serial input buffer, some at a time.
DevDeliver ==
    /\ wire # <<>>
    /\ \E k \in 1..Len(wire) :
        /\ rx' = rx \o SubSeq(wire, 1, k)
        /\ wire' = SubSeq(wire, k + 1, Len(wire))
    /\ dres' = NoDRes
    /\ UNCHANGED <<dev, dpc, dcall, xvars, sent, opens, munch, clock>>

\* The settle delay ends: the locals of the read loop are initialised.
DevSettled ==
    /\ dpc = "settle"
    /\ dpc' = "read"
    /\ response' = <<>>
    /\ carriage_returns' = 0
    /\ ack_received' = FALSE
    /\ elapsed' = 0
    /\ zero_reads' = 0
    /\ dres' = NoDRes
    /\ UNCHANGED <<dev, dcall, wire, rx, sent, opens, munch, clock>>

\* send_command_internal returns res to the call, which decodes it and
\* returns; the port lock is released.
DevFinish(res) ==
    /\ dev' = [dev EXCEPT !.port_lock = None]
    /\ dpc' = "idle"
    /\ dcall' = NoCall
    /\ dres' = IF res.status = "err"
               THEN DRes(dcall.name, "err", res.err, <<>>, sent)
               ELSE LET v == Decode(dcall, res.output)
                    IN DRes(dcall.name, v.status, v.err, v.value, sent)
    /\ response' = <<>>
    /\ carriage_returns' = 0
    /\ ack_received' = FALSE
    /\ elapsed' = 0
    /\ zero_reads' = 0

Count(s, c) == Cardinality({i \in DOMAIN s : s[i].ch = c})

\* Mutant of DevReadBytes: the loop goes on until a third carriage return.
DevReadBytes_ThreeReturns ==
    /\ dpc = "read"
    /\ rx # <<>>
    /\ rx' = <<>>
    /\ LET crs == carriage_returns + Count(rx, CR)
       IN IF crs >= 3
          THEN DevFinish(Normalise(response \o rx))
          ELSE /\ response' = response \o rx
               /\ carriage_returns' = crs
               /\ ack_received' = (ack_received \/ crs >= 1)
               /\ elapsed' = 0
               /\ dpc' = "backoff"
               /\ dres' = NoDRes
               /\ UNCHANGED <<dev, dcall, zero_reads>>
    /\ UNCHANGED <<wire, sent, opens, munch, clock>>

\* port.read returns the bytes that are waiting (fewer than the 1024 of the
\* buffer): they are appended, and two carriage returns end the loop.
DevReadBytes ==
    /\ dpc = "read"
    /\ rx # <<>>
    /\ rx' = <<>>
    /\ LET crs == carriage_returns + Count(rx, CR)
       IN IF crs >= 2
          THEN DevFinish(Normalise(response \o rx))
          ELSE /\ response' = response \o rx
               /\ carriage_returns' = crs
               /\ ack_received' = (ack_received \/ crs >= 1)
               /\ elapsed' = 0
               /\ dpc' = "backoff"
               /\ dres' = NoDRes
               /\ UNCHANGED <<dev, dcall, zero_reads>>
    /\ UNCHANGED <<wire, sent, opens, munch, clock>>

\* port.read returns Ok(0): nothing is checked, the loop goes on.
DevReadZero ==
    /\ dpc = "read"
    /\ rx = <<>>
    /\ zero_reads < MaxZeroReads
    /\ zero_reads' = zero_reads + 1
    /\ dpc' = "backoff"
    /\ dres' = NoDRes
    /\ UNCHANGED <<dev, dcall, wire, rx, response, carriage_returns,
                   ack_received, elapsed, sent, opens, munch, clock>>

\* port.read returns Ok(0) once more, beyond the reads that are counted.
DevReadZeroAgain ==
    /\ dpc = "read"
    /\ rx = <<>>
    /\ zero_reads = MaxZeroReads
    /\ dpc' = "backoff"
    /\ dres' = NoDRes
    /\ UNCHANGED <<dev, dcall, wire, rx, response, carriage_returns,
                   ack_received, elapsed, zero_reads, sent, opens, munch, clock>>

\* Mutant of DevReadTimedOut: after ACK_TIMEOUT without an acknowledgement
\* the loop ends and what was received is normalised and returned.
DevReadTimedOut_ReturnsPartial ==
    /\ dpc = "read"
    /\ rx = <<>>
    /\ LET e == elapsed + PORT_TIMEOUT
       IN IF (~ack_received /\ e > ACK_TIMEOUT)
             \/ (ack_received /\ e > PAYLOAD_IDLE_TIMEOUT)
          THEN DevFinish(Normalise(response))
          ELSE /\ elapsed' = e
               /\ dpc' = "backoff"
               /\ dres' = NoDRes
               /\ UNCHANGED <<dev, dcall, response, carriage_returns,
                              ack_received, zero_reads>>
    /\ UNCHANGED <<wire, rx, sent, opens, munch, clock>>

\* Mutant of DevReadTimedOut: an idle line after the acknowledgement is
\* reported as Timeout.
DevReadTimedOut_TimeoutAfterAck ==
    /\ dpc = "read"
    /\ rx = <<>>
    /\ LET e == elapsed + PORT_TIMEOUT
       IN IF (~ack_received /\ e > ACK_TIMEOUT)
             \/ (ack_received /\ e > PAYLOAD_IDLE_TIMEOUT)
          THEN DevFinish([status |-> "err", err |-> "Timeout", output |-> <<>>])
          ELSE /\ elapsed' = e
               /\ dpc' = "backoff"
               /\ dres' = NoDRes
               /\ UNCHANGED <<dev, dcall, response, carriage_returns,
                              ack_received, zero_reads>>
    /\ UNCHANGED <<wire, rx, sent, opens, munch, clock>>

\* port.read times out after PORT_TIMEOUT with nothing received: Timeout
\* when no acknowledgement came within ACK_TIMEOUT; the end of the loop when
\* the acknowledgement is there and the line was idle for more than
\* PAYLOAD_IDLE_TIMEOUT.
DevReadTimedOut ==
    /\ dpc = "read"
    /\ rx = <<>>
    /\ LET e == elapsed + PORT_TIMEOUT
       IN IF ~ack_received /\ e > ACK_TIMEOUT
          THEN DevFinish([status |-> "err", err |-> "Timeout", output |-> <<>>])
          ELSE IF ack_received /\ e > PAYLOAD_IDLE_TIMEOUT
          THEN DevFinish(Normalise(response))
          ELSE /\ elapsed' = e
               /\ dpc' = "backoff"
               /\ dres' = NoDRes
               /\ UNCHANGED <<dev, dcall, response, carriage_returns,
                              ack_received, zero_reads>>
    /\ UNCHANGED <<wire, rx, sent, opens, munch, clock>>

\* port.read fails with another I/O error.
DevReadFails ==
    /\ dpc = "read"
    /\ DevFinish([status |-> "err", err |-> "Io", output |-> <<>>])
    /\ UNCHANGED <<wire, rx, sent, opens, munch, clock>>

\* The READ_BACKOFF sleep at the end of a loop iteration. The elapsed time
\* is read only after a read that timed out, PORT_TIMEOUT later: once it is
\* beyond ACK_TIMEOUT - PORT_TIMEOUT that reading is beyond ACK_TIMEOUT
\* whatever the exact value, so all such values are kept as ACK_TIMEOUT.
DevBackoff ==
    /\ dpc = "backoff"
    /\ dpc' = "read"
    /\ elapsed' = IF elapsed + READ_BACKOFF > ACK_TIMEOUT - PORT_TIMEOUT
                  THEN ACK_TIMEOUT
                  ELSE elapsed + READ_BACKOFF
    /\ dres' = NoDRes
    /\ UNCHANGED <<dev, dcall, wire, rx, response, carriage_returns,
                   ack_received, zero_reads, sent, opens, munch, clock>>

DevNext ==
    \/ DevMockConnect
    \/ DevMockDisconnect
    \/ DevMockCall
    \/ DevIsConnected
    \/ DevFlukeConnect
    \/ DevFlukeConnectFails
    \/ DevFlukeDisconnect
    \/ DevFlukeSend
    \/ DevFlukeWriteFails
    \/ DevDeliver
    \/ DevSettled
    \/ DevReadBytes
    \/ DevReadZero
    \/ DevReadTimedOut
    \/ DevReadFails
    \/ DevBackoff

\* ---------------------------------------------------------- specifications
vars == <<mvars, dvars>>

Init == MInit /\ DevIdle /\ dev = NewMock
Next == MNext
Spec == Init /\ [][Next]_vars

DevSpec == DevInit /\ [][DevNext]_vars

\* One Fluke instance and the first command of its caller, with no bound on
\* the reads that return Ok(0). The caller's task is scheduled: a sleep that is over ends, and a
\* read attempt returns with one of its outcomes; which outcome is left open.
LiveInit == DevInit /\ dev = NewFluke("Fluke289", Some("COM3"))
FirstSend == sent = 0 /\ DevFlukeSend
ReadAttempt ==
    \/ DevReadBytes
    \/ DevReadZero
    \/ DevReadZeroAgain
    \/ DevReadTimedOut
    \/ DevReadFails
LiveNext ==
    \/ DevFlukeConnect
    \/ FirstSend
    \/ DevDeliver
    \/ DevSettled
    \/ DevBackoff
    \/ ReadAttempt
LiveSpec ==
    /\ LiveInit /\ [][LiveNext]_vars
    /\ WF_vars(DevSettled) /\ WF_vars(DevBackoff) /\ WF_vars(ReadAttempt)

\* ------------------------------------------------------------- wire codec
\* The values of Unit, MeasurementState and MeasurementAttribute.
Units == {"None", "VoltDc", "VoltAc", "AmpDc", "AmpAc", "VoltAcPlusDc",
          "AmpAcPlusDc", "Volt", "Amp", "Ohm", "Siemens", "Hertz", "Second",
          "Farad", "Celsius", "Fahrenheit", "Percent", "DecibelM", "DecibelV",
          "Decibel", "CrestFactor"}
MeasurementStates == {"Normal", "Invalid", "Blank", "Overload",
                      "OverloadNegative", "OpenThermocouple", "Discharge"}
MeasurementAttributes == {"None", "OpenCircuit", "ShortCircuit",
                          "GlitchCircuit", "GoodDiode", "LowOhms",
                          "NegativeEdge", "PositiveEdge", "HighCurrent"}
CodecKinds == {"unit", "state", "attribute"}
ValuesOf(kind) == CASE kind = "unit" -> Units
                    [] kind = "state" -> MeasurementStates
                    [] kind = "attribute" -> MeasurementAttributes
TableOf(kind) == CASE kind = "unit" -> UnitTable
                   [] kind = "state" -> StateTable
                   [] kind = "attribute" -> AttributeTable

\* The token the encoder emits for a value: the match arms of
\* MockDevice::send_command.
EncodeToken(kind, value) ==
    CASE kind = "unit" -> MockUnitStr(value)
      [] kind = "state" -> MockStateStr(value)
      [] kind = "attribute" -> MockAttrStr(value)

\* parse_unit / parse_state / parse_attribute on a token.
DecodeToken(kind, token) == Lookup(TableOf(kind), Tagged(<<token>>, 0))

\* The tokens that are decoded: those of the three tables, and some of none.
TokenInputs ==
    DOMAIN UnitTable \cup DOMAIN StateTable \cup DOMAIN AttributeTable
    \cup {"", "XYZ", "vdc", "LOW_OHMS", "0"}

\* The fields a payload is put together from: by position for the two typed
\* calls, with and without surrounding blanks, in and outside the tables.
MaxFields == 5      \* comma-separated fields of a payload
ExtraFields == {<<"x">>}
FieldChoices(name, i) ==
    IF name = "get_measurement"
    THEN CASE i = 1 -> {<<"3.300000">>, <<" ", "3.3">>, <<"abc">>, <<>>}
           [] i = 2 -> {<<"VDC">>, <<"OHM", " ">>, <<"XYZ">>, <<"NORMAL">>}
           [] i = 3 -> {<<"NORMAL">>, <<"OL">>, <<"VDC">>}
           [] i = 4 -> {<<"NONE">>, <<"LEO_OHMS">>, <<"LOW_OHMS">>}
           [] OTHER -> ExtraFields
    ELSE CASE i = 1 -> {<<"FLUKE 289">>, <<" ", "FLUKE 289", " ">>, <<>>}
           [] i = 2 -> {<<"V1.00">>, <<"V1.00", " ">>}
           [] i = 3 -> {<<"95081087">>, <<>>}
           [] OTHER -> ExtraFields

RECURSIVE FieldSeqs(_, _)
FieldSeqs(name, n) ==
    IF n = 0 THEN {<<>>}
    ELSE {Append(fs, f) : fs \in FieldSeqs(name, n - 1),
                          f \in FieldChoices(name, n)}

RECURSIVE Join(_)
Join(fs) == IF fs = <<>> THEN <<>>
            ELSE IF Len(fs) = 1 THEN fs[1]
            ELSE fs[1] \o <<",">> \o Join(Tail(fs))

Payloads(name) == {Join(fs) : fs \in UNION {FieldSeqs(name, n) : n \in 0..MaxFields}}
Acks == {"0", "2"}

\* What the call returns when the read loop has accumulated `resp`.
Answer(call, resp) ==
    LET res == Normalise(resp)
    IN IF res.status = "err"
       THEN [status |-> "err", err |-> res.err, value |-> <<>>]
       ELSE Decode(call, res.output)

\* The texts parse_ack is applied to: empty, or a first character followed
\* by some rest.
AckFirsts == {"0", "1", "2", "5", "3", "7", "A", " ", ","}
AckRests == {<<>>, <<"p">>, <<"0">>, <<"1", ",", "x">>}
AckTexts == {<<>>} \cup {<<c>> \o r : c \in AckFirsts, r \in AckRests}

\* The accumulated responses that are normalised.
MaxResponse == 4    \* characters of an accumulated response
ResponseChars == {"0", "p", CR, LF}
RECURSIVE SeqsUpTo(_, _)
SeqsUpTo(S, n) ==
    IF n = 0 THEN {<<>>}
    ELSE SeqsUpTo(S, n - 1)
         \cup {Append(q, c) : q \in {r \in SeqsUpTo(S, n - 1) : Len(r) = n - 1},
                              c \in S}
Responses == SeqsUpTo(ResponseChars, MaxResponse)

\* The applications that are checked: a function and its argument.
CodecInputs ==
    UNION {{Applied("roundtrip", kind, value) : value \in ValuesOf(kind)} :
               kind \in CodecKinds}
    \cup {Applied("decode", kind, token) :
        kind \in CodecKinds, token \in TokenInputs}
    \cup {Applied("get_measurement", ack, payload) :
        ack \in Acks, payload \in Payloads("get_measurement")}
    \cup {Applied("identify", ack, payload) :
        ack \in Acks, payload \in Payloads("identify")}
    \cup {Applied("parse_ack", "", text) : text \in AckTexts}
    \cup {Applied("normalise", "", resp) : resp \in Responses}

CodecInit == MInit /\ DevQuiet /\ dev = NewMock /\ cin \in CodecInputs /\ cout = <<>>

\* The function named by cin is applied and returns res.
CodecApply(fn, res) ==
    /\ cin.fn = fn
    /\ cout = <<>>
    /\ cout' = <<res>>
    /\ UNCHANGED <<cin, mvars, dev, dpc, dcall, dres, wire, rx, xvars, sent, opens>>

\* A value is encoded and the token decoded again.
CodecRoundTrip ==
    CodecApply("roundtrip",
               DecodeToken(cin.kind, EncodeToken(cin.kind, cin.arg)))

\* A token is decoded.
CodecDecode == CodecApply("decode", DecodeToken(cin.kind, cin.arg))

\* get_measurement on the reply: acknowledgement, payload, each ended by '\r'.
CodecGetMeasurement ==
    CodecApply("get_measurement",
               Answer(Call("get_measurement", ""),
                      Tagged(<<cin.kind, CR>> \o cin.arg \o <<CR>>, 0)))

\* identify on the reply: acknowledgement, payload, each ended by '\r'.
CodecIdentify ==
    CodecApply("identify",
               Answer(Call("identify", ""),
                      Tagged(<<cin.kind, CR>> \o cin.arg \o <<CR>>, 0)))

\* parse_ack on a normalised response.
CodecParseAck ==
    CodecApply("parse_ack",
               [err |-> ParseAck(Tagged(cin.arg, 0)),
                message |-> AckMessage(Tagged(cin.arg, 0))])

\* The tail of send_command_internal on an accumulated response.
CodecNormalise == CodecApply("normalise", Normalise(Tagged(cin.arg, 0)))

CodecNext ==
    \/ CodecRoundTrip
    \/ CodecDecode
    \/ CodecGetMeasurement
    \/ CodecIdentify
    \/ CodecParseAck
    \/ CodecNormalise
CodecSpec == CodecInit /\ [][CodecNext]_vars

\* =====================================================================
\* Properties of the session manager (Spec)
\* =====================================================================
DigitValue(c) == CHOOSE v \in 0..9 : DigitChars[v + 1] = c
IsDigit(c) == \E v \in 0..9 : DigitChars[v + 1] = c

RECURSIVE ParseDecimal(_)
ParseDecimal(ds) ==
    IF ds = <<>> THEN 0
    ELSE 10 * ParseDecimal(SubSeq(ds, 1, Len(ds) - 1)) + DigitValue(ds[Len(ds)])

\* device_NNNN: the prefix, then a decimal number of at least four digits
\* that has leading zeros only to reach that width.
WellFormedId(id) ==
    /\ Len(id) >= Len(IdPrefix) + 4
    /\ SubSeq(id, 1, Len(IdPrefix)) = IdPrefix
    /\ \A i \in (Len(IdPrefix) + 1)..Len(id) : IsDigit(id[i])
    /\ Len(id) > Len(IdPrefix) + 4 => id[Len(IdPrefix) + 1] # "0"
CounterOf(id) == ParseDecimal(SubSeq(id, Len(IdPrefix) + 1, Len(id)))

Issued == {issued[i] : i \in DOMAIN issued}

\* Where a device call is suspended.
ExchangePcs == {"m_sleep", "x_settle", "x_read"}

\* The requests whose handler starts in this step: those a task takes up,
\* and the one the step answers with no task having been serving it.
Started ==
    {op'[t] : t \in {u \in Tasks : op[u] = NoRequest /\ op'[u] # NoRequest}}
    \cup (IF returned' # NoResponse /\ \A t \in Tasks : op[t] # returned'.request
          THEN {returned'.request} ELSE {})
SessionOps == {"Disconnect", "GetMeasurement", "GetStatus", "Reset",
               "SendRawCommand"}

NotFoundFor(r) == Response(r, Res("err", "NotFound", r.id, None))

\* C1: every identifier a successful Connect returns has the form
\* device_NNNN, the first has counter value 1, and each has a counter value
\* strictly greater than every identifier returned before it; so none is
\* returned twice, disconnected or not.
C1_IdsStrictlyIncrease ==
    /\ \A i \in DOMAIN issued : WellFormedId(issued[i])
    /\ issued # <<>> => CounterOf(issued[1]) = 1
    /\ \A i, j \in DOMAIN issued :
           i < j => CounterOf(issued[i]) < CounterOf(issued[j])

\* C1 happens: two identifiers were returned, the first of them already
\* disconnected.
C1_Witness == Len(issued) >= 2 /\ issued[1] \in disconnected

\* C2: Disconnect, GetMeasurement, GetStatus, Reset and SendRawCommand on an
\* identifier that is not in the table answer not-found and leave the table
\* as it is.
C2_UnknownIdNotFound ==
    [][\A r \in Started :
           (r.name \in SessionOps /\ r.id \notin DOMAIN devices)
               => returned' = NotFoundFor(r) /\ devices' = devices]_vars

\* C2 happens: SendRawCommand on an identifier that is not in the table was
\* answered not-found while the table holds another session.
C2_Witness ==
    /\ returned.request.name = "SendRawCommand"
    /\ returned.res.err = "NotFound"
    /\ returned.request.id \notin DOMAIN devices
    /\ devices # EmptyTable

\* C3: at any time at most one device call is in progress on the device of
\* one session identifier.
C3_OneExchangePerDevice ==
    \A id \in IdInputs :
        Cardinality({t \in Tasks : pc[t] \in ExchangePcs /\ op[t].id = id}) <= 1

\* C3 happens: a GetMeasurement is inside the read loop of a session's
\* Fluke while another handler is free to take a request.
C3_Witness ==
    \E t, u \in Tasks :
        /\ pc[t] = "x_read" /\ op[t].name = "GetMeasurement"
        /\ op[t].id \in DOMAIN devices
        /\ pc[u] = "idle"

\* C4: the table lock is never held by a handler whose device call is at one
\* of its suspension points.
C4_LockNotHeldInExchange ==
    \A t \in Tasks : pc[t] \in ExchangePcs => table_lock # Some(t)

\* C5: while a device call on session B is in progress, a request on another
\* session A of the table can start: its handler gets the table lock without
\* waiting for B's call to finish.
C5_OtherSessionCanStart ==
    \A t \in Tasks :
        (/\ pc[t] \in ExchangePcs
         /\ op[t].name \in {"GetMeasurement", "Reset", "SendRawCommand"}
         /\ \E a \in DOMAIN devices : a # op[t].id)
            => TableLockFree

\* C7: a Connect that fails leaves the table as it was, and an entry is
\* added only by the step in which a Connect returns its identifier.
C7_FailedConnectKeepsTable ==
    [][/\ (returned'.request.name = "Connect" /\ returned'.res.status = "err")
              => devices' = devices
       /\ \A id \in DOMAIN devices' \ DOMAIN devices :
              /\ returned'.request.name = "Connect"
              /\ returned'.res.status = "ok"
              /\ returned'.res.id = id]_vars

\* C7 happens: a Connect failed in identify() while the table holds a
\* session.
C7_Witness ==
    /\ returned.request.name = "Connect"
    /\ returned.res.err = "Io"
    /\ devices # EmptyTable

\* C8: a Disconnect on an identifier of the table removes the entry in the
\* step that takes the table lock, whatever disconnect() then returns; and
\* any later request on that identifier is answered not-found.
C8_DisconnectAlwaysRemoves ==
    [][\A r \in Started :
           /\ (r.name = "Disconnect" /\ r.id \in DOMAIN devices)
                  => r.id \notin DOMAIN devices'
           /\ (r.name \in SessionOps /\ r.id \in disconnected)
                  => returned' = NotFoundFor(r)]_vars

\* C8 happens: a Disconnect on the second session returned and the entry is
\* gone.
C8_Witness ==
    /\ returned.request.name = "Disconnect"
    /\ returned.res.status = "ok"
    /\ returned.request.id = FormatDeviceId(2)
    /\ returned.request.id \in Issued \ DOMAIN devices

\* C9: the table holds exactly the identifiers that a Connect returned and
\* no Disconnect has removed; an entry leaves the table only in the step in
\* which a Disconnect on it starts; GetMeasurement on a disconnected
\* identifier is answered not-found.
C9_TableIsIssuedMinusDisconnected ==
    /\ [](DOMAIN devices = Issued \ disconnected)
    /\ [][/\ \A id \in DOMAIN devices \ DOMAIN devices' :
                 \E r \in Started : r.name = "Disconnect" /\ r.id = id
          /\ \A r \in Started :
                 (r.name = "GetMeasurement" /\ r.id \in Issued
                  /\ r.id \notin DOMAIN devices)
                     => returned' = NotFoundFor(r)]_vars

\* C9 happens: after Connect and Disconnect, GetMeasurement on the same
\* identifier was answered not-found.
C9_Witness ==
    /\ returned.request.name = "GetMeasurement"
    /\ returned.res.err = "NotFound"
    /\ returned.request.id \in Issued
    /\ returned.request.id \in disconnected

\* C23: a ListConnected or GetStatus request leaves the session table (so
\* every device in it) and the identifier counter as they were;
\* ListConnected returns one item {id, type, info, connected} for each
\* identifier of the table and no other; and the info of an entry is the one
\* identify() gave its Connect, which no later step changes.
C23_StatusReadsOnly ==
    [][/\ returned'.request.name \in {"ListConnected", "GetStatus"}
              => /\ devices' = devices
                 /\ next_device_id' = next_device_id
       /\ returned'.request.name = "ListConnected"
              => /\ returned'.res.status = "ok"
                 /\ {i.id : i \in returned'.res.value} = DOMAIN devices
                 /\ Cardinality(returned'.res.value) = Cardinality(DOMAIN devices)
                 /\ \A i \in returned'.res.value :
                        /\ i.device_type = devices[i.id].device_type
                        /\ i.info = devices[i.id].info
                        /\ i.connected = IsConnected(devices[i.id].device)
       /\ (returned'.request.name = "Connect" /\ returned'.res.status = "ok")
              => \E t \in Tasks :
                     /\ pc[t] = "c_lock" /\ pc'[t] = "idle"
                     /\ devices'[returned'.res.id].info = TheOne(info[t])
       /\ \A id \in DOMAIN devices \cap DOMAIN devices' :
              devices'[id].info = devices[id].info]_vars

C23_Witness ==
    /\ returned.request.name = "ListConnected"
    /\ Cardinality(returned.res.value) = 2
    /\ \E i \in returned.res.value : i.info \in FlukeInfos

\* The locks task t holds: the table lock, and the port lock of a device in
\* the table or in its own hands.
HoldsTableLock(t) == table_lock = Some(t)
HoldsPortLock(t) ==
    \/ \E id \in DOMAIN devices : devices[id].device.port_lock = Some(t)
    \/ \E u \in Tasks : local[u] # None /\ TheOne(local[u]).port_lock = Some(t)

\* C29: a handler that has returned, with an error or not, holds neither the
\* table lock nor a port lock, and when a request on a session has been
\* answered with an error the table lock and the port lock of every device
\* in the table are free; a lock that is held is held by a
\* handler that is inside a device call and has a step to take, a handler
\* waiting for the table lock never holds a port lock, and when the table
\* lock is free a handler waiting for it can take it: no lock outlives its
\* call and no handler waits for a lock that cannot be released.
C29_LocksReleasedOnReturn ==
    /\ \A t \in Tasks :
        /\ pc[t] = "idle" => ~HoldsTableLock(t) /\ ~HoldsPortLock(t)
        /\ pc[t] = "c_lock" => ~HoldsTableLock(t) /\ ~HoldsPortLock(t)
        /\ HoldsTableLock(t) \/ HoldsPortLock(t)
               => CASE pc[t] = "m_sleep" -> ENABLED MockWake(t)
                    [] pc[t] = "c_sleep" -> ENABLED ConnectIdentify(t)
                    [] pc[t] = "x_settle" -> ENABLED XSettled(t)
                    [] pc[t] = "x_read" -> ENABLED XReadOk(t) /\ ENABLED XReadFails(t)
                    [] OTHER -> FALSE
        /\ (pc[t] = "c_lock" /\ table_lock = None) => ENABLED ConnectCommit(t)
    /\ (returned.res.status = "err" /\ returned.request.name # "Connect")
           => /\ table_lock = None
              /\ \A id \in DOMAIN devices : devices[id].device.port_lock = None

\* C29 happens: an exchange on a session failed, the error was returned and
\* both locks are free again.
C29_Witness ==
    /\ returned.res.status = "err"
    /\ returned.res.err \in {"Timeout", "Parse", "Device", "InvalidCommand", "Io"}
    /\ returned.request.name \in {"GetMeasurement", "Reset", "SendRawCommand"}
    /\ table_lock = None
    /\ \A id \in DOMAIN devices : devices[id].device.port_lock = None
    /\ returned.request.id \in DOMAIN devices

\* C31: a Connect that returns an error, whether for its device type, in
\* connect() or in identify(), leaves the identifier counter and the
\* identifiers issued as they were; the counter moves only in the step in
\* which a Connect returns its identifier, by one, and that identifier is
\* the one added to those issued; so at any time the identifiers issued
\* are device_0001 up to device_N in this order, N being the number of
\* Connects that succeeded, and the counter is N + 1.
C31_IdsWithoutGaps ==
    /\ [](/\ next_device_id = Len(issued) + 1
          /\ \A i \in DOMAIN issued :
                 WellFormedId(issued[i]) /\ CounterOf(issued[i]) = i)
    /\ [][/\ (returned'.request.name = "Connect"
              /\ returned'.res.status = "err")
                 => next_device_id' = next_device_id /\ issued' = issued
          /\ (next_device_id' # next_device_id \/ issued' # issued)
                 => /\ returned'.request.name = "Connect"
                    /\ returned'.res.status = "ok"
                    /\ next_device_id' = next_device_id + 1
                    /\ issued' = Append(issued, returned'.res.id)
                    /\ CounterOf(returned'.res.id) = next_device_id]_vars

\* C31 happens: with one identifier issued, a Connect has come as far as
\* identify() and failed there, and the counter stands at 2.
C31_Witness ==
    /\ returned.request.name = "Connect"
    /\ returned.res.status = "err"
    /\ returned.res.err \notin {"InvalidType", "Config", "Serial"}
    /\ Len(issued) = 1
    /\ next_device_id = 2

\* =====================================================================
\* Properties of one device instance (DevSpec)
\* =====================================================================
\* C6: the response returned to a command of a Fluke consists only of bytes
\* the instrument sent in reply to that command.
C6_OnlyOwnReplyBytes ==
    (dres.name = "send_command" /\ dres.status = "ok")
        => \A i \in DOMAIN dres.value : dres.value[i].of = dres.cmd

\* The instance is connected as its connect() sees it: the Mock's flag is
\* set, the Fluke's port handle is there.
AlreadyConnected == IF dev.kind = "Mock" THEN dev.connected ELSE dev.port # None

\* C10: connect() on an instance that is already connected returns success
\* and leaves the instance as it is: still connected, the Fluke's port not
\* opened again, the Mock's profile, start instant and measurement count the
\* same.
C10_ConnectTwiceIsNoOp ==
    [][(dres'.name = "connect" /\ AlreadyConnected)
           => /\ dres'.status = "ok"
              /\ dev' = dev
              /\ opens' = opens
              /\ IsConnected(dev')]_vars

\* C10 happens: connect() returned success on a Fluke that has exchanged a
\* command since its port was opened, and the port was opened only once.
C10_Witness ==
    /\ dres.name = "connect" /\ dres.status = "ok"
    /\ dev.kind = "Fluke" /\ dev.port # None
    /\ sent > 0 /\ opens = 1

\* The calls of the capability interface that talk to the instrument.
ExchangeCalls == {"identify", "get_measurement", "reset", "send_command"}

\* C11: disconnect() returns success in every state of every instance;
\* afterwards the instance is not connected and holds no port handle, and on
\* an instance that was not connected it changes nothing.
C11_DisconnectAlwaysSucceeds ==
    [][dres'.name = "disconnect"
           => /\ dres'.status = "ok"
              /\ ~dev'.connected
              /\ dev'.port = None
              /\ ~AlreadyConnected => dev' = dev]_vars

\* C11 happens: disconnect() returned on a Mock that had been connected and
\* had produced a measurement.
C11_Witness ==
    /\ dres.name = "disconnect" /\ dres.status = "ok"
    /\ dev.kind = "Mock" /\ dev.measurement_count > 0 /\ ~dev.connected

\* C12: is_connected() answers true exactly when the instance is connected.
C12_IsConnectedTellsState ==
    dres.name = "is_connected" => dres.value = <<AlreadyConnected>>

\* C13: identify, get_measurement, reset and send_command on an instance
\* that is not connected fail with Connection, write nothing to the
\* transport and leave the instance as it is.
C13_NotConnectedRefuses ==
    [][(dpc = "idle" /\ ~AlreadyConnected)
           => /\ dpc' = "idle" /\ sent' = sent
              /\ dres'.name \in ExchangeCalls
                     => /\ dres'.status = "err" /\ dres'.err = "Connection"
                        /\ dev' = dev]_vars

\* C13 happens: send_command was refused with Connection on a Fluke whose
\* port had been open before.
C13_Witness ==
    /\ dres.name = "send_command" /\ dres.err = "Connection"
    /\ dev.kind = "Fluke" /\ dev.port = None /\ opens > 0

\* C14 as stated: connect() on a Fluke without a port name fails with a
\* Connection error and the instance stays not connected.
C14_NoPortNameIsConnectionError ==
    (dres.name = "connect" /\ dev.kind = "Fluke" /\ dev.port_name = None)
        => dres.status = "err" /\ dres.err = "Connection" /\ dev.port = None

\* C14 amended: connect() on a Fluke without a port name fails with a
\* Config error and the instance stays not connected.
C14_NoPortNameIsConfigError ==
    (dres.name = "connect" /\ dev.kind = "Fluke" /\ dev.port_name = None)
        => dres.status = "err" /\ dres.err = "Config" /\ dev.port = None

\* C14 happens: connect() returned on a Fluke that has no port name.
C14_Witness ==
    dres.name = "connect" /\ dev.kind = "Fluke" /\ dev.port_name = None

\* The text the read loop has when this step ends it, and what
\* send_command_internal makes of it.
Seen == IF rx # <<>> THEN response \o rx ELSE response
ExchangeOutput == Normalise(Seen)

\* This step ends the read loop with send_command_internal returning Ok.
ExchangeReturnsOk ==
    /\ dpc = "read" /\ dpc' = "idle"
    /\ dres'.err \notin {"Io", "Timeout"}
    /\ ExchangeOutput.status = "ok"

\* C15 as stated: no device call returns success on a reply that begins with
\* acknowledgement 1; seen on the one call that returns the reply's text.
C15_AckOneNeverSuccess ==
    (dres.name = "send_command" /\ dres.status = "ok" /\ dres.value # <<>>)
        => dres.value[1].ch # "1"

\* C15 amended: on a reply that begins with acknowledgement 1, identify,
\* get_measurement and reset fail with InvalidCommand, and send_command
\* returns the normalised text as it is.
C15_TypedCallsRejectAckOne ==
    [][(ExchangeReturnsOk /\ ExchangeOutput.output[1].ch = "1")
           => IF dcall.name = "send_command"
              THEN dres'.status = "ok" /\ dres'.value = ExchangeOutput.output
              ELSE dres'.status = "err" /\ dres'.err = "InvalidCommand"]_vars

\* C15 happens: reset failed with InvalidCommand.
C15_Witness ==
    dres.name = "reset" /\ dres.status = "err" /\ dres.err = "InvalidCommand"

C21_ProfileLifetime ==
    /\ [][(dev.kind = "Mock" /\ dev.connected)
              => /\ dres'.name \in {"get_measurement", "send_command"}
                        => /\ dev'.profile = dev.profile
                           /\ dev'.started_at = dev.started_at
                 /\ (dres'.name = "reset" /\ dres'.status = "ok")
                        => dev'.started_at # dev.started_at]_vars
    /\ [](\A k \in ProfileDraws :
            /\ (dpc = "idle" /\ dev.kind = "Mock" /\ ~dev.connected
                    /\ clock < MaxDevTicks)
                   => ENABLED (DevMockConnect /\ dev'.profile = Some(k))
            /\ (dpc = "idle" /\ dev.kind = "Mock" /\ dev.connected
                    /\ clock < MaxDevTicks)
                   => ENABLED (DevMockCall /\ dres'.name = "reset"
                                   /\ dev'.profile = Some(k)))

\* The form of a raw-command text: its first character, the number of its
\* comma-separated fields, and whether it holds carriage returns.
Form(text) == [digit |-> IF text = <<>> THEN "" ELSE text[1].ch,
               fields |-> Len(Split(text, ",")),
               carriage_returns |-> Count(text, CR) > 0]

\* C22: the text the Mock's send_command returns has the form of the text a
\* Fluke's send_command returns when the instrument replies with the same
\* bytes: the same status digit first, the same number of comma-separated
\* fields, carriage returns present in both or in neither.
C22_MockRawTextAsFluke ==
    (dev.kind = "Mock" /\ dres.name = "send_command" /\ dres.status = "ok")
        => /\ Normalise(dres.value).status = "ok"
           /\ Form(dres.value) = Form(Normalise(dres.value).output)

\* This step is a read that returns bytes.
ReadsBytes == dpc = "read" /\ rx # <<>> /\ rx' = <<>>

\* C24: the read that brings the accumulated bytes to two carriage returns
\* ends the exchange in that very step with neither Timeout nor an I/O
\* error, the raw command returning the normalised response of the lines
\* received, so the loop never reads with two carriage returns accumulated;
\* and no exchange ends in success while the accumulated bytes hold no
\* carriage return.
C24_TwoCarriageReturnsEnd ==
    [][/\ (ReadsBytes /\ Count(response \o rx, CR) >= 2)
              => /\ dpc' = "idle"
                 /\ dres'.name = dcall.name
                 /\ dres'.err \notin {"Timeout", "Io"}
                 /\ (dcall.name = "send_command"
                     /\ Lines(response \o rx) # <<>>)
                        => /\ dres'.status = "ok"
                           /\ dres'.value = Normalise(response \o rx).output
       /\ (ReadsBytes /\ Count(response \o rx, CR) < 2) => dpc' = "backoff"
       /\ dpc \in {"read", "backoff"}
              => carriage_returns < 2 /\ carriage_returns = Count(response, CR)
       /\ (dpc = "read" /\ dpc' = "idle" /\ dres'.status = "ok")
              => Count(Seen, CR) >= 1]_vars

\* C24 happens: the first command's reply of two lines was read to its
\* second carriage return and returned whole.
C24_Witness ==
    /\ dres.name = "send_command" /\ dres.status = "ok"
    /\ Text(dres.value) = <<"0", "p">>
    /\ sent = 1 /\ wire = <<>> /\ rx = <<>>

\* C30: within an exchange the acknowledgement flag is set exactly when a
\* carriage return has been accumulated and is never cleared; an exchange
\* that ends with a carriage return accumulated never ends with Timeout: it
\* ends on the read that brings the second carriage return, on a timed-out
\* read after more than PAYLOAD_IDLE_TIMEOUT of silence, or with an I/O error
\* of the port, and unless the port failed it returns what decoding the
\* normalised response gives.
C30_NoTimeoutAfterFirstCarriageReturn ==
    [][/\ dpc \in {"read", "backoff"}
              => (ack_received <=> carriage_returns >= 1)
       /\ (dpc \in {"read", "backoff"} /\ dpc' \in {"read", "backoff"}
           /\ ack_received) => ack_received'
       /\ (dpc = "read" /\ dpc' = "idle" /\ Count(Seen, CR) >= 1)
              => /\ dres'.err # "Timeout"
                 /\ \/ dres'.err = "Io"
                    \/ ReadsBytes /\ Count(Seen, CR) >= 2
                    \/ /\ rx = <<>> /\ ack_received
                       /\ elapsed + PORT_TIMEOUT > PAYLOAD_IDLE_TIMEOUT
                 /\ dres'.err # "Io"
                        => LET v == Decode(dcall, ExchangeOutput.output)
                           IN IF ExchangeOutput.status = "ok"
                              THEN /\ dres'.status = v.status
                                   /\ dres'.err = v.err
                                   /\ dres'.value = v.value
                              ELSE dres'.err = ExchangeOutput.err]_vars

\* C30 happens: the acknowledgement was read, the payload did not come in
\* time, and the call ended in success with the acknowledgement alone.
C30_Witness ==
    /\ dres.name = "send_command" /\ dres.status = "ok"
    /\ Text(dres.value) = <<"0">>
    /\ sent = 1 /\ rx = <<>>
    /\ wire = Tagged(<<"p", CR>>, 1)

\* =====================================================================
\* Properties of the read loop under a scheduled caller (LiveSpec)
\* =====================================================================
\* C17: every exchange terminates: a call that has written its command
\* returns.
C17_ExchangeTerminates == (dpc # "idle") ~> (dpc = "idle")

\* One carriage return has been seen and the line has been silent for more
\* than PAYLOAD_IDLE_TIMEOUT, with nothing more to come.
AckOnlyIdle ==
    /\ dpc = "read"
    /\ carriage_returns = 1
    /\ rx = <<>> /\ wire = <<>>
    /\ elapsed > PAYLOAD_IDLE_TIMEOUT

\* C25: once exactly one carriage return has been seen and no byte has
\* arrived for longer than PAYLOAD_IDLE_TIMEOUT the loop does not go on: the
\* read attempt that finds nothing ends the exchange, with the
\* acknowledgement-only response unless the port itself fails; and an
\* exchange that ends with one carriage return seen never ends with Timeout.
C25_AckOnlyEndsInSuccess ==
    [][/\ AckOnlyIdle
              => /\ dpc' = "idle"
                 /\ dres'.err # "Timeout"
                 /\ (dres'.err # "Io" /\ dcall.name = "send_command")
                        => /\ dres'.status = "ok"
                           /\ dres'.value = Normalise(response).output
       /\ (dpc = "read" /\ dpc' = "idle" /\ carriage_returns = 1)
              => dres'.err # "Timeout"]_vars

\* =====================================================================
\* Properties of the wire codec (CodecSpec)
\* =====================================================================
\* The function fn has been applied; what it returned.
Did(fn) == cin.fn = fn /\ cout # <<>>
Out == cout[1]

PayloadFields ==
    LET parts == Split(Tagged(cin.arg, 0), ",")
    IN [i \in DOMAIN parts |-> Text(Trim(parts[i]))]
IsToken(table, field) == Len(field) = 1 /\ field[1] \in DOMAIN table
IsNumber(field) == Len(field) = 1 /\ field[1] \in Numbers
ExampleMeasurement == <<"3.300000", ",", "VDC", ",", "NORMAL", ",", "NONE">>
ExampleIdentify == <<"FLUKE 289", ",", "V1.00", ",", "95081087">>

\* C19: get_measurement on a reply with acknowledgement 0 succeeds exactly
\* when the payload has at least 4 comma-separated fields of which (trimmed)
\* the first parses as a number and the 2nd, 3rd and 4th are tokens of the
\* unit, state and attribute tables, and it returns the decoded values; in
\* every other case it fails with Parse. 3.300000,VDC,NORMAL,NONE gives
\* 3.3, VoltDc, Normal, None.
C19_MeasurementDecoded ==
    (Did("get_measurement") /\ cin.kind = "0") =>
        LET f == PayloadFields IN
        /\ IF /\ Len(f) >= 4
              /\ IsNumber(f[1])
              /\ IsToken(UnitTable, f[2])
              /\ IsToken(StateTable, f[3])
              /\ IsToken(AttributeTable, f[4])
           THEN /\ Out.status = "ok"
                /\ Out.value = <<F64Of[f[1][1]], UnitTable[f[2][1]],
                                  StateTable[f[3][1]], AttributeTable[f[4][1]]>>
           ELSE Out.status = "err" /\ Out.err = "Parse"
        /\ cin.arg = ExampleMeasurement
               => Out.value = <<33, "VoltDc", "Normal", "None">>

C19_Witness ==
    /\ Did("get_measurement") /\ cin.kind = "0"
    /\ cin.arg = ExampleMeasurement
    /\ Out.status = "ok"

\* C20: identify on a reply with acknowledgement 0 succeeds only on a
\* payload of exactly 3 comma-separated fields, which it returns trimmed as
\* model, software version and serial number in that order; a payload with
\* fewer than 3 fields fails with Parse. FLUKE 289,V1.00,95081087 gives
\* model FLUKE 289, software_version V1.00, serial_number 95081087.
C20_IdentifyExactlyThreeFields ==
    (Did("identify") /\ cin.kind = "0") =>
        LET f == PayloadFields IN
        /\ Out.status = "ok" => Len(f) = 3 /\ Out.value = <<f[1], f[2], f[3]>>
        /\ Len(f) < 3 => Out.status = "err" /\ Out.err = "Parse"
        /\ cin.arg = ExampleIdentify
               => /\ Out.status = "ok"
                  /\ Out.value = <<(<<"FLUKE 289">>), (<<"V1.00">>),
                                    (<<"95081087">>)>>

\* What the claim gives for a first character.
AckOutcome(c) ==
    CASE c = "0" -> [err |-> "", message |-> ""]
      [] c = "1" -> [err |-> "InvalidCommand", message |-> "Syntax error"]
      [] c = "2" -> [err |-> "Device", message |-> "Execution error"]
      [] c = "5" -> [err |-> "Device", message |-> "No data available"]
      [] OTHER -> [err |-> "Parse", message |-> "Unknown ACK code"]

\* C26: parse_ack looks at the first character of the text only: 0 is
\* success, 1 InvalidCommand, 2 a Device execution error, 5 a Device no-data
\* error, any other character a Parse failure; the empty text is a Parse
\* failure.
C26_AckByFirstCharacter ==
    Did("parse_ack") =>
        IF cin.arg = <<>> THEN Out.err = "Parse"
        ELSE Out = AckOutcome(cin.arg[1])

C26_Witness ==
    /\ Did("parse_ack")
    /\ cin.arg = <<"5", "1", ",", "x">>
    /\ Out.err = "Device" /\ Out.message = "No data available"

\* The accumulated response holds nothing but carriage returns and line
\* feeds (or nothing at all).
NothingUsable == \A i \in DOMAIN cin.arg : cin.arg[i] \in {CR, LF}

\* C27 as stated: a response with nothing usable accumulated, be it no bytes
\* at all or only carriage returns and line feeds, fails with Timeout and
\* never with Parse.
C27_NothingUsableIsTimeout ==
    (Did("normalise") /\ NothingUsable)
        => Out.status = "err" /\ Out.err = "Timeout"

\* C27, amended: no bytes at all fail with Timeout; carriage returns and line
\* feeds with no non-empty line among them fail with Parse (missing
\* acknowledgement); neither is a success.
C27_EmptyIsTimeoutBlankIsParse ==
    (Did("normalise") /\ Lines(Tagged(cin.arg, 0)) = <<>>)
        => /\ Out.status = "err"
           /\ Out.err = IF cin.arg = <<>> THEN "Timeout" ELSE "Parse"
           /\ NothingUsable

C27_Witness ==
    /\ Did("normalise")
    /\ cin.arg = <<CR, LF, CR>>
    /\ Out.err = "Parse"

\* The normalised segments of the response that was given: split on '\r',
\* every segment without its trailing line feeds if `trimmed`, the empty
\* ones left out, in arrival order.
Segments(trimmed) ==
    LET segs == Split(Tagged(cin.arg, 0), CR)
        kept == [i \in DOMAIN segs |->
                    IF trimmed THEN TrimEndMatches(segs[i], LF) ELSE segs[i]]
    IN SelectSeq(kept, LAMBDA l : l # <<>>)

\* C28 as stated: the text a successful exchange returns is the accumulated
\* bytes split on carriage returns, empty segments discarded, the rest
\* concatenated in arrival order with every segment verbatim.
C28_OutputIsSegmentsVerbatim ==
    (Did("normalise") /\ Out.status = "ok")
        => Text(Out.output) = Text(Flatten(Segments(FALSE)))

\* C28, amended: the text a successful exchange returns is the accumulated
\* bytes split on carriage returns, trailing line feeds trimmed from every
\* segment, empty segments discarded and the rest concatenated in arrival
\* order with nothing in between: it holds no carriage return, starts with
\* the first character of the first segment kept (the acknowledgement), and
\* is the response itself without its carriage returns when the response
\* holds no line feed.
C28_OutputIsTrimmedSegments ==
    (Did("normalise") /\ Out.status = "ok")
        => /\ Text(Out.output) = Text(Flatten(Segments(TRUE)))
           /\ Count(Out.output, CR) = 0
           /\ Out.output # <<>>
           /\ Out.output[1] = Segments(TRUE)[1][1]
           /\ Count(Tagged(cin.arg, 0), LF) = 0
                  => Out.output = SelectSeq(Tagged(cin.arg, 0),
                                            LAMBDA b : b.ch # CR)

C28_Witness ==
    /\ Did("normalise")
    /\ cin.arg = <<"0", CR, "p", CR>>
    /\ Out.status = "ok"
    /\ Text(Out.output) = <<"0", "p">>

====
